---------------------------- MODULE Spec2Model ----------------------------
(***************************************************************************)
(* A model of fincomepy's Bond (src/fincomepy/bond.py) and BondFuture      *)
(* (src/fincomepy/bondfuture.py).                                          *)
(*                                                                         *)
(* Dates are records [year, month, day] of the proleptic Gregorian         *)
(* calendar, as datetime.date.  Quantities the code holds in floats are    *)
(* exact rationals <<n, d>> with d > 0 in lowest terms.                    *)
(***************************************************************************)
EXTENDS Integers, Sequences, FiniteSets, TLC

(***************************************************************************)
(* Bounds of the model.                                                    *)
(***************************************************************************)
\* Calendar years the dates are drawn from: FirstYear .. FirstYear + YearSpan.
YearSpan == 1
\* Repo periods (calendar days) a BondFuture is built with: 0 .. MaxRepoPeriod.
MaxRepoPeriod == 1
\* The count of yield solves is kept up to this number.
MaxSolves == 3

FirstYear == 2019

\* Python's None, and the outcome of a call that raises
None == << >>

Error == << "Error" >>

(***************************************************************************)
(* Exact rational arithmetic.                                              *)
(***************************************************************************)
Abs(x) == IF x < 0 THEN -x ELSE x

Min(a, b) == IF a <= b THEN a ELSE b

RECURSIVE Gcd(_, _)
Gcd(a, b) == IF b = 0 THEN a ELSE Gcd(b, a % b)

\* n/d in lowest terms with a positive denominator (d # 0).
Rat(n, d) ==
    LET g == Gcd(Abs(n), Abs(d))
        s == IF d < 0 THEN -1 ELSE 1
    IN  << (s * n) \div g, (s * d) \div g >>

RInt(n) == << n, 1 >>

RAdd(a, b) ==
    LET g == Gcd(a[2], b[2])
    IN  Rat(a[1] * (b[2] \div g) + b[1] * (a[2] \div g), (a[2] \div g) * b[2])

RNeg(a) == << -a[1], a[2] >>

RSub(a, b) == RAdd(a, RNeg(b))

RMul(a, b) ==
    LET g1 == Gcd(Abs(a[1]), b[2])
        g2 == Gcd(Abs(b[1]), a[2])
    IN  Rat((a[1] \div g1) * (b[1] \div g2), (a[2] \div g2) * (b[2] \div g1))

\* a / b, b # 0.
RDiv(a, b) == RMul(a, IF b[1] < 0 THEN << -b[2], -b[1] >> ELSE << b[2], b[1] >>)

RAbs(a) == << Abs(a[1]), a[2] >>

RLe(a, b) == RSub(a, b)[1] <= 0

RLt(a, b) == RSub(a, b)[1] < 0

RECURSIVE RPow(_, _)
RPow(a, k) == IF k = 0 THEN RInt(1) ELSE RMul(a, RPow(a, k - 1))

(***************************************************************************)
(* datetime.date, timedelta and dateutil's relativedelta(months=...).      *)
(***************************************************************************)
IsLeap(y) == (y % 4 = 0) /\ ((y % 100 # 0) \/ (y % 400 = 0))

DaysInMonth(y, m) ==
    IF m = 2 THEN (IF IsLeap(y) THEN 29 ELSE 28)
    ELSE IF m \in {4, 6, 9, 11} THEN 30 ELSE 31

Date(y, m, d) == [year |-> y, month |-> m, day |-> d]

RECURSIVE DaysBeforeMonth(_, _)
DaysBeforeMonth(y, m) ==
    IF m = 1 THEN 0 ELSE DaysBeforeMonth(y, m - 1) + DaysInMonth(y, m - 1)

\* date.toordinal()
ToOrdinal(dt) ==
    LET y == dt.year - 1
    IN  y * 365 + (y \div 4) - (y \div 100) + (y \div 400)
        + DaysBeforeMonth(dt.year, dt.month) + dt.day

\* (date2 - date1).days
DaysBetween(date1, date2) == ToOrdinal(date2) - ToOrdinal(date1)

DateLt(a, b) == ToOrdinal(a) < ToOrdinal(b)

DateLe(a, b) == ToOrdinal(a) <= ToOrdinal(b)

NextDay(dt) ==
    IF dt.day < DaysInMonth(dt.year, dt.month) THEN Date(dt.year, dt.month, dt.day + 1)
    ELSE IF dt.month < 12 THEN Date(dt.year, dt.month + 1, 1)
    ELSE Date(dt.year + 1, 1, 1)

PrevDay(dt) ==
    IF dt.day > 1 THEN Date(dt.year, dt.month, dt.day - 1)
    ELSE IF dt.month > 1 THEN Date(dt.year, dt.month - 1, DaysInMonth(dt.year, dt.month - 1))
    ELSE Date(dt.year - 1, 12, 31)

\* date + timedelta(days=n), n of either sign
RECURSIVE AddDays(_, _)
AddDays(dt, n) ==
    IF n = 0 THEN dt
    ELSE IF n > 0 THEN AddDays(NextDay(dt), n - 1)
    ELSE AddDays(PrevDay(dt), n + 1)

\* date - relativedelta(months=k): the month moves by k, the day is kept
\* unless the target month is shorter, and then it is that month's last day.
SubMonths(dt, k) ==
    LET t == dt.year * 12 + (dt.month - 1) - k
        y == t \div 12
        m == (t % 12) + 1
    IN  Date(y, m, Min(dt.day, DaysInMonth(y, m)))

\* math.ceil(a / b) and math.floor(a / b) for b > 0
CeilDiv(a, b) == -((-a) \div b)

FloorDiv(a, b) == a \div b

(***************************************************************************)
(* Bond's static date functions.                                           *)
(***************************************************************************)
diff_month(date1, date2) ==
    (date2.year - date1.year) * 12 + date2.month - date1.month

\* next_month - timedelta(days=next_month.day)
minus_own_day(next_month) == AddDays(next_month, -next_month.day)

last_day_in_month(original_date) ==
    minus_own_day(AddDays(Date(original_date.year, original_date.month, 28), 4))

\* 12 / frequency, for the frequencies relativedelta accepts (whole months)
coupon_interval(frequency) == 12 \div frequency

nperiod(settlement, maturity, frequency) ==
    CeilDiv(diff_month(settlement, maturity), coupon_interval(frequency))

\* A coupon date of a bond maturing on a month end is moved to its month's end.
month_end_snap(maturity, cd) ==
    IF maturity = last_day_in_month(maturity) THEN last_day_in_month(cd) ELSE cd

couppcd(settlement, maturity, frequency, basis) ==
    month_end_snap(maturity,
        SubMonths(maturity,
            coupon_interval(frequency) * nperiod(settlement, maturity, frequency)))

coupncd(settlement, maturity, frequency, basis) ==
    month_end_snap(maturity,
        SubMonths(maturity,
            coupon_interval(frequency) * (nperiod(settlement, maturity, frequency) - 1)))

\* date is the last day of a February
is_february_end(date) == date = last_day_in_month(date) /\ date.month = 2

\* basis 0 once the February rules have set D1 and D2: the 31st rules and
\* the 30/360 count
day_count_us(date1, date2, D1, D2) ==
    360 * (date2.year - date1.year) + 30 * (date2.month - date1.month)
    + ((IF D2 = 31 /\ (D1 = 30 \/ D1 = 31) THEN 30 ELSE D2)
       - (IF D1 = 31 THEN 30 ELSE D1))

\* basis 4 once a 31st has been moved back one day
day_count_eu(date1, date2) ==
    360 * (date2.year - date1.year) + 30 * (date2.month - date1.month)
    + (date2.day - date1.day)

not_the_31st(date) == IF date.day = 31 THEN AddDays(date, -1) ELSE date

\* day_count without its second February rule (date1's day is kept).
day_count_without_february_rule(date1, date2, basis) ==
    IF basis = 0 THEN
        day_count_us(date1, date2, date1.day,
                     IF is_february_end(date1) /\ is_february_end(date2)
                     THEN 30 ELSE date2.day)
    ELSE IF basis = 4 THEN day_count_eu(not_the_31st(date1), not_the_31st(date2))
    ELSE DaysBetween(date1, date2)

day_count(date1, date2, basis) ==
    IF basis = 0 THEN
        day_count_us(date1, date2,
                     IF is_february_end(date1) THEN 30 ELSE date1.day,
                     IF is_february_end(date1) /\ is_february_end(date2)
                     THEN 30 ELSE date2.day)
    ELSE IF basis = 4 THEN day_count_eu(not_the_31st(date1), not_the_31st(date2))
    ELSE DaysBetween(date1, date2)

\* (rate / frequency) * (accrued_days / total_days) * par
accrint_of_days(rate, par, frequency, accrued_days, total_days) ==
    IF total_days = 0 THEN Error
    ELSE RMul(RMul(RDiv(rate, RInt(frequency)), Rat(accrued_days, total_days)),
              RInt(par))

\* rate is a rational; the result is a rational, or Error when the code raises.
accrint(issue, first_interest, settlement, rate, par, frequency, basis) ==
    IF DateLt(first_interest, issue) THEN Error
    ELSE IF basis = 2 THEN RMul(Rat(DaysBetween(issue, settlement), 360), rate)
    ELSE IF basis = 3 THEN RMul(Rat(DaysBetween(issue, settlement), 365), rate)
    ELSE accrint_of_days(rate, par, frequency,
                         day_count(issue, settlement, basis),
                         day_count(issue, first_interest, basis))

(***************************************************************************)
(* The state: one Bond (or BondFuture) object, the root finder's answer    *)
(* for its yield equation, and a record of the last call made on it.       *)
(***************************************************************************)
VARIABLES
    cls,                \* "Bond" or "BondFuture"
    _settlement, _maturity, _frequency, _basis, _redemption,
    _couppcd, _coupncd,
    _perc_dict,         \* coupon, clean_price, accrint, dirty_price, futures_pr_perc
    _reg_dict,          \* the same quantities times 0.01
    _yld, _mac_duration, _mod_duration, _DV01, _convexity,
    _repo_period, _repo_end_date, _conversion_factor, _future_val_perc,
    sol,                \* what scipy's root returns for this bond's yield equation
    call,               \* the last call: its name, arguments, result and what it computed
    nsolve,             \* how many times Bond.yld has run on this object
    probe               \* the arguments of a pending call of a static function

identity == << cls, _settlement, _maturity, _frequency, _basis, _redemption,
               _couppcd, _coupncd, _perc_dict, _reg_dict >>

memo == << _yld, _mac_duration, _mod_duration, _DV01, _convexity >>

future == << _repo_period, _repo_end_date, _conversion_factor, _future_val_perc >>

vars == << identity, memo, future, sol, call, nsolve, probe >>

\* FixedIncome.update_dict: every percent quantity also as a fraction of par.
update_dict(perc) == [k \in DOMAIN perc |-> RMul(perc[k], Rat(1, 100))]

\* The memoized fields as one record.
Self == [yld |-> _yld, mac_duration |-> _mac_duration, mod_duration |-> _mod_duration,
         DV01 |-> _DV01, convexity |-> _convexity]

\* A call's record: op(args) returned val (Error: it raised); log lists, in
\* order, each run of Bond.yld ("Bond.yld") and each memoized field the call
\* assigned; pre holds the memoized fields as the call found them.
Call(op, args, val, log) ==
    [op |-> op, args |-> args, val |-> val, log |-> log, pre |-> Self]

NoCall ==
    [op |-> "__init__", args |-> << >>, val |-> None, log |-> << >>,
     pre |-> [yld |-> None, mac_duration |-> None, mod_duration |-> None,
              DV01 |-> None, convexity |-> None]]

(***************************************************************************)
(* Bond.__init__ and BondFuture.__init__, as the state they leave.         *)
(***************************************************************************)
\* perc_more holds the percent quantities a subclass adds to _perc_dict.
BondFields(settlement, maturity, coupon_perc, price_perc, frequency, basis, redemption, yld, perc_more) ==
    \E pcd \in {couppcd(settlement, maturity, frequency, basis)},
       ncd \in {coupncd(settlement, maturity, frequency, basis)} :
      \E acc \in {accrint(pcd, ncd, settlement, coupon_perc, 1, frequency, basis)} :
        /\ _settlement = settlement
        /\ _maturity = maturity
        /\ _frequency = frequency
        /\ _basis = basis
        /\ _redemption = redemption
        /\ _couppcd = pcd
        /\ _coupncd = ncd
        /\ acc # Error
        /\ _perc_dict = perc_more @@
                [coupon |-> coupon_perc, clean_price |-> price_perc, accrint |-> acc,
                 dirty_price |-> RAdd(price_perc, acc)]
        /\ _reg_dict = update_dict(_perc_dict)
        /\ _yld = yld
        /\ _mac_duration = None
        /\ _mod_duration = None
        /\ _DV01 = None
        /\ _convexity = None

\* No quantity added to _perc_dict.
NoMore == [k \in {} |-> None]

(***************************************************************************)
(* The schedule specification: a BondFuture built from dates of every      *)
(* day-of-month shape, every basis and several frequencies, on which the   *)
(* date functions, day_count and full_future_val are called.               *)
(***************************************************************************)
Years == FirstYear .. (FirstYear + YearSpan)

ValidDates(ys, ms, ds) ==
    {Date(y, m, d) : <<y, m, d>> \in
        {t \in ys \X ms \X ds : t[3] <= DaysInMonth(t[1], t[2])}}

MonthEnds(ys, ms) == {Date(y, m, DaysInMonth(y, m)) : <<y, m>> \in ys \X ms}

SettlementDates == ValidDates(Years, 1 .. 12, {10, 15}) \cup MonthEnds(Years, 1 .. 12)

MaturityDates ==
    ValidDates(Years, {2, 8}, {15}) \cup ValidDates(Years, {4, 8}, {30})
    \cup MonthEnds(Years, {2, 8})

\* Coupon rates in percent.
Coupons == {RInt(0), Rat(5, 8)}

ProbeDates == ValidDates(Years, 1 .. 12, 1 .. 31)

Frequencies == {1, 2, 4}

Bases == 0 .. 4

\* BondFuture(settlement, maturity, c, 100, frequency, basis, repo_period, ...)
\* for arguments drawn from the given sets.
BondFutureInit(settlements, maturities, frequencies, bases, coupons, repo_periods) ==
    \E settlement \in settlements, maturity \in maturities,
       frequency \in frequencies, basis \in bases,
       c \in coupons, repo_period \in repo_periods :
        /\ DateLt(settlement, maturity)
        /\ cls = "BondFuture"
        /\ BondFields(settlement, maturity, c, RInt(100), frequency, basis, 100, None,
                      [k \in {"futures_pr_perc"} |-> RInt(100)])
        /\ _repo_period = repo_period
        /\ _repo_end_date = AddDays(settlement, repo_period)
        /\ _conversion_factor = RInt(1)
        /\ _future_val_perc = None
        /\ sol = None
        /\ call = NoCall
        /\ nsolve = 0

InitSchedule ==
    /\ BondFutureInit(SettlementDates, MaturityDates, Frequencies, Bases,
                      Coupons, 0 .. MaxRepoPeriod)
    /\ probe = None

\* coupon_dates without the snap to month ends.
coupon_dates_unsnapped(settlement, maturity, frequency) ==
    LET periods == FloorDiv(diff_month(settlement, maturity), coupon_interval(frequency))
    IN  [i \in 1 .. (periods + 1) |->
            SubMonths(maturity, coupon_interval(frequency) * (i - 1))]

\* Bond.coupon_dates
coupon_dates_of(settlement, maturity, frequency) ==
    LET periods == FloorDiv(diff_month(settlement, maturity), coupon_interval(frequency))
        dates == [i \in 1 .. (periods + 1) |->
                     SubMonths(maturity, coupon_interval(frequency) * (i - 1))]
    IN  IF maturity = last_day_in_month(maturity)
        THEN [i \in DOMAIN dates |-> last_day_in_month(dates[i])]
        ELSE dates

coupon_dates ==
    /\ call' = Call("coupon_dates", << >>,
                     coupon_dates_of(_settlement, _maturity, _frequency), << >>)
    /\ UNCHANGED << identity, memo, future, sol, nsolve, probe >>

\* BondFuture.full_future_val
full_future_val ==
    /\ cls = "BondFuture"
    /\ IF _future_val_perc # None
       THEN /\ call' = Call("full_future_val", << >>, _future_val_perc, << >>)
            /\ UNCHANGED _future_val_perc
       ELSE LET invoice_pr_perc == RMul(_perc_dict["futures_pr_perc"], _conversion_factor)
                accrint_perc == accrint(_couppcd, _coupncd, _repo_end_date,
                                        _perc_dict["coupon"], 1, 2, 1)
            IN  /\ _future_val_perc' = RAdd(invoice_pr_perc, accrint_perc)
                /\ call' = Call("full_future_val", << >>, _future_val_perc',
                                 << "_future_val_perc" >>)
    /\ UNCHANGED << identity, memo, _repo_period, _repo_end_date, _conversion_factor,
                    sol, nsolve, probe >>

NextSchedule == coupon_dates \/ full_future_val

SpecSchedule == InitSchedule /\ [][NextSchedule]_vars

(***************************************************************************)
(* The day-count specification: the static day_count called once on        *)
(* arguments drawn from every calendar date of the model's years, against  *)
(* itself, its neighbours and a date half a year on.                       *)
(***************************************************************************)
InitDayCount ==
    /\ BondFutureInit({Date(FirstYear, 2, 28)}, {Date(FirstYear + 1, 2, 28)},
                      {2}, {1}, {RInt(1)}, {0})
    /\ \E date1 \in ProbeDates, basis \in Bases :
        \E date2 \in {date1, NextDay(date1), SubMonths(date1, -6)} :
            probe = << date1, date2, basis >>

\* A call of the static Bond.day_count(date1, date2, basis).
day_count_call ==
    /\ probe # None
    /\ call.op = "__init__"
    /\ call' = Call("day_count", probe, day_count(probe[1], probe[2], probe[3]), << >>)
    /\ UNCHANGED << identity, memo, future, sol, nsolve, probe >>

NextDayCount == day_count_call

SpecDayCount == InitDayCount /\ [][NextDayCount]_vars

(***************************************************************************)
(* Pricing and the yield solve.                                            *)
(***************************************************************************)
Irrational == << "Irrational" >>

\* a ** e for a rational exponent e: exact when e is a whole number (or a
\* is 1); the bonds of Init are drawn so that no other power is taken.
Power(a, e) ==
    IF e[2] = 1 /\ e[1] >= 0 THEN RPow(a, e[1])
    ELSE IF a = RInt(1) THEN RInt(1)
    ELSE Irrational

RECURSIVE RSum(_)
RSum(seq) == IF seq = << >> THEN RInt(0) ELSE RAdd(Head(seq), RSum(Tail(seq)))

\* first_period = (ncd - settlement).days / (ncd - pcd).days
first_period_of(settlement, pcd, ncd) ==
    Rat(DaysBetween(settlement, ncd), DaysBetween(pcd, ncd))

\* periods, CF_regular and DF as dirty_price and intermediate_values build
\* them; Error when nperiod is 0 and CF_perc[-1] raises IndexError.
cash_flows(settlement, maturity, pcd, ncd, rate, yld, redemption, frequency) ==
    LET n == nperiod(settlement, maturity, frequency)
        first_period == first_period_of(settlement, pcd, ncd)
        periods == [i \in 1 .. n |-> RAdd(first_period, RInt(i - 1))]
        CF_perc == [i \in 1 .. n |->
                       IF i = n THEN RAdd(RDiv(rate, RInt(frequency)), RInt(redemption))
                       ELSE RDiv(rate, RInt(frequency))]
        CF_regular == [i \in 1 .. n |-> RMul(CF_perc[i], Rat(1, 100))]
        yld_regular == RMul(yld, Rat(1, 100))
        base == RAdd(RInt(1), RDiv(yld_regular, RInt(frequency)))
        DF == [i \in 1 .. n |-> RDiv(RInt(1), Power(base, periods[i]))]
    IN  IF n <= 0 THEN Error ELSE << periods, CF_regular, DF >>

\* np.sum(CF_regular * DF) * 100
present_value(v) ==
    IF v = Error THEN Error
    ELSE RMul(RSum([i \in DOMAIN v[1] |-> RMul(v[2][i], v[3][i])]), RInt(100))

dirty_price(settlement, maturity, rate, yld, redemption, frequency, basis) ==
    present_value(cash_flows(settlement, maturity,
                             couppcd(settlement, maturity, frequency, basis),
                             coupncd(settlement, maturity, frequency, basis),
                             rate, yld, redemption, frequency))

\* The percent yields a solve may end on.
YieldCandidates == {RInt(y) : y \in -5 .. 5}

\* Where a solve that does not converge may stop: on its seed or elsewhere.
Iterates == {Rat(1, 100), RInt(150)}

\* The candidates at which the dirty price meets the target.  At or below
\* -100 * frequency percent the discount base is not positive and the price
\* is not finite: no root lies there.
roots_of(settlement, maturity, rate, target, redemption, frequency, basis) ==
    {y \in YieldCandidates :
        /\ y[1] > -100 * frequency
        /\ dirty_price(settlement, maturity, rate, y, redemption, frequency, basis)
               = target}

\* What the root finder returns, given the roots of the equation.
outcomes_of(n, roots) ==
    IF n <= 0 THEN {[success |-> FALSE, x |-> Error]}
    ELSE IF roots # {} THEN {[success |-> TRUE, x |-> y] : y \in roots}
    ELSE {[success |-> FALSE, x |-> y] : y \in Iterates}

\* scipy.optimize.root on the yield equation, seeded at 0.01: a converged
\* result is a root; without a root it reports failure and returns its last
\* iterate; x is Error when evaluating the equation raises.
RootOutcomes(settlement, maturity, rate, pr, redemption, frequency, basis) ==
    outcomes_of(nperiod(settlement, maturity, frequency),
        roots_of(settlement, maturity, rate,
                 RAdd(accrint(couppcd(settlement, maturity, frequency, basis),
                              coupncd(settlement, maturity, frequency, basis),
                              settlement, rate, 1, frequency, basis), pr),
                 redemption, frequency, basis))

\* Bond.yld: the root finder's x, whatever its success flag, once the
\* assertion 0 <= yld <= 100 passes.
yld_of(s) ==
    IF s.x = Error THEN Error
    ELSE IF RLe(RInt(0), s.x) /\ RLe(s.x, RInt(100)) THEN s.x
    ELSE Error

(***************************************************************************)
(* The risk metrics.  Each takes the memoized fields m and gives the       *)
(* fields as it leaves them, its result and its log.                       *)
(***************************************************************************)
\* Python's truth value of an optional float
Truthy(v) == v # None /\ v # RInt(0)

Result(m, val, log) == [m |-> m, val |-> val, log |-> log]

\* yld_change_perc=0.01
DefaultBump == Rat(1, 100)

run_yld == yld_of(sol)

run_intermediate_values(m) ==
    LET n == nperiod(_settlement, _maturity, _frequency)
        solve == m.yld = None
        y == IF solve THEN run_yld ELSE m.yld
        ylog == IF solve THEN << "Bond.yld" >> ELSE << >>
    IN  IF n <= 0 THEN Result(m, Error, << >>)
        ELSE IF y = Error THEN Result(m, Error, ylog)
        ELSE Result([m EXCEPT !.yld = y],
                    cash_flows(_settlement, _maturity, _couppcd, _coupncd,
                               _perc_dict["coupon"], y, _redemption, _frequency),
                    IF solve THEN << "Bond.yld", "yld" >> ELSE << >>)

\* mac_duration from what intermediate_values returned
mac_duration_of(r) ==
    LET periods == r.val[1]
        CF_regular == r.val[2]
        DF == r.val[3]
        CF_PV_times_p == [i \in DOMAIN periods |->
                             RMul(RMul(CF_regular[i], DF[i]), periods[i])]
        v == RDiv(RDiv(RSum(CF_PV_times_p), _reg_dict["dirty_price"]),
                  RInt(_frequency))
    IN  IF r.val = Error THEN r
        ELSE Result([r.m EXCEPT !.mac_duration = v], v, r.log \o << "mac_duration" >>)

run_mac_duration(m) ==
    IF Truthy(m.mac_duration) THEN Result(m, m.mac_duration, << >>)
    ELSE mac_duration_of(run_intermediate_values(m))

\* (dirty_price_bumped - dirty_price) / dirty_price
relative_change(dirty_price_bumped_perc) ==
    RDiv(RSub(dirty_price_bumped_perc, _perc_dict["dirty_price"]),
         _perc_dict["dirty_price"])

\* mod_duration from the yield and the two bumped dirty prices
mod_duration_of(m, solve, original_yield_perc, yld_change_perc, dirty_price_up_perc, dirty_price_down_perc) ==
    LET ylog == IF solve THEN << "Bond.yld" >> ELSE << >>
        v == RDiv(RDiv(RAdd(RAbs(relative_change(dirty_price_up_perc)),
                            RAbs(relative_change(dirty_price_down_perc))),
                       RInt(2)),
                  RMul(yld_change_perc, Rat(1, 100)))
    IN  IF original_yield_perc = Error THEN Result(m, Error, ylog)
        ELSE IF dirty_price_up_perc = Error THEN Result(m, Error, ylog)
        ELSE Result([m EXCEPT !.mod_duration = v], v, ylog \o << "mod_duration" >>)

\* The dirty price at a yield (Error when the yield solve raised).
bumped_dirty_price(yld) ==
    IF yld = Error THEN Error
    ELSE dirty_price(_settlement, _maturity, _perc_dict["coupon"], yld,
                     _redemption, _frequency, _basis)

mod_duration_at(m, original_yield_perc, yld_change_perc) ==
    mod_duration_of(m, m.yld = None, original_yield_perc, yld_change_perc,
        bumped_dirty_price(IF original_yield_perc = Error THEN Error
                           ELSE RAdd(original_yield_perc, yld_change_perc)),
        bumped_dirty_price(IF original_yield_perc = Error THEN Error
                           ELSE RSub(original_yield_perc, yld_change_perc)))

run_mod_duration(m, yld_change_perc) ==
    IF Truthy(m.mod_duration) THEN Result(m, m.mod_duration, << >>)
    ELSE mod_duration_at(m, IF m.yld = None THEN run_yld ELSE m.yld, yld_change_perc)

\* DV01 from the modified duration as mod_duration left it
DV01_of(r) ==
    LET v == RMul(r.m.mod_duration, _reg_dict["dirty_price"])
    IN  IF r.val = Error THEN r
        ELSE Result([r.m EXCEPT !.DV01 = v], v, r.log \o << "DV01" >>)

run_DV01(m) ==
    IF Truthy(m.DV01) THEN Result(m, m.DV01, << >>)
    ELSE DV01_of(IF m.mod_duration = None THEN run_mod_duration(m, DefaultBump)
                 ELSE Result(m, m.mod_duration, << >>))

\* convexity from what intermediate_values returned
convexity_of(r) ==
    LET periods == r.val[1]
        CF_regular == r.val[2]
        DF == r.val[3]
        all == [i \in DOMAIN periods |->
                   RDiv(RAdd(RMul(RMul(CF_regular[i], DF[i]), periods[i]),
                             RMul(RMul(RMul(CF_regular[i], DF[i]), periods[i]),
                                  periods[i])),
                        _reg_dict["dirty_price"])]
        \* intermediate_values has set _yld: the second solve never runs
        solve == r.m.yld = None
        y == IF solve THEN run_yld ELSE r.m.yld
        yield_regular == RMul(y, Rat(1, 100))
        v == RDiv(RSum(all),
                  RMul(RInt(4),
                       RPow(RAdd(RInt(1), RDiv(yield_regular, RInt(_frequency))), 2)))
    IN  IF r.val = Error THEN r
        ELSE IF y = Error THEN Result(r.m, Error, r.log \o << "Bond.yld" >>)
        ELSE Result([r.m EXCEPT !.yld = y, !.convexity = v], v,
                    r.log \o (IF solve THEN << "Bond.yld", "yld" >> ELSE << >>)
                          \o << "convexity" >>)

run_convexity(m) ==
    IF Truthy(m.convexity) THEN Result(m, m.convexity, << >>)
    ELSE convexity_of(run_intermediate_values(m))

\* price_change from what DV01 and convexity returned
price_change_of(r1, r2, yld_change_perc) ==
    LET yld_change_reg == RMul(yld_change_perc, Rat(1, 100))
        price_change_reg ==
            RAdd(RMul(RMul(RInt(-1), r1.val), yld_change_reg),
                 RMul(RDiv(RMul(_reg_dict["dirty_price"], r2.val), RInt(2)),
                      RPow(yld_change_reg, 2)))
    IN  IF r2.val = Error THEN Result(r2.m, Error, r1.log \o r2.log)
        ELSE Result(r2.m, RMul(price_change_reg, RInt(100)), r1.log \o r2.log)

\* convexity runs on the object as DV01 left it
price_change_after(r1, yld_change_perc) ==
    IF r1.val = Error THEN r1
    ELSE price_change_of(r1, run_convexity(r1.m), yld_change_perc)

run_price_change(m, yld_change_perc) ==
    price_change_after(run_DV01(m), yld_change_perc)

Solves(log) == Cardinality({i \in DOMAIN log : log[i] = "Bond.yld"})

\* Returns, with DV01 storing its result over the regular dirty price.
Returns_overwriting_dirty_price(op, args, r) ==
    /\ _yld' = r.m.yld
    /\ _mac_duration' = r.m.mac_duration
    /\ _mod_duration' = r.m.mod_duration
    /\ _DV01' = r.m.DV01
    /\ _convexity' = r.m.convexity
    /\ call' = Call(op, args, r.val, r.log)
    /\ nsolve' = Min(nsolve + Solves(r.log), MaxSolves)
    /\ _reg_dict' = IF op = "DV01" /\ r.val # Error
                    THEN [_reg_dict EXCEPT !["dirty_price"] = r.val]
                    ELSE _reg_dict
    /\ UNCHANGED << cls, _settlement, _maturity, _frequency, _basis, _redemption,
                    _couppcd, _coupncd, _perc_dict, future, sol, probe >>

\* The state a method call leaves: the memoized fields, the call's record
\* and the count of yield solves; nothing else is assigned.
Returns(op, args, r) ==
    /\ _yld' = r.m.yld
    /\ _mac_duration' = r.m.mac_duration
    /\ _mod_duration' = r.m.mod_duration
    /\ _DV01' = r.m.DV01
    /\ _convexity' = r.m.convexity
    /\ call' = Call(op, args, r.val, r.log)
    /\ nsolve' = Min(nsolve + Solves(r.log), MaxSolves)
    /\ UNCHANGED << identity, future, sol, probe >>

intermediate_values == Returns("intermediate_values", << >>, run_intermediate_values(Self))

\* mac_duration is declared a staticmethod taking the object: the call is
\* Bond.mac_duration(bond).
mac_duration == Returns("mac_duration", << >>, run_mac_duration(Self))

Bumps == {DefaultBump, RInt(1)}

mod_duration ==
    \E yld_change_perc \in Bumps :
        Returns("mod_duration", << yld_change_perc >>,
                run_mod_duration(Self, yld_change_perc))

DV01 == Returns("DV01", << >>, run_DV01(Self))

convexity == Returns("convexity", << >>, run_convexity(Self))

price_change ==
    \E yld_change_perc \in {RInt(0)} :
        Returns("price_change", << yld_change_perc >>,
                run_price_change(Self, yld_change_perc))

(***************************************************************************)
(* The specification of one Bond's life: construction, then any sequence   *)
(* of calls of its methods.  Settlement is drawn on a coupon date one      *)
(* period before maturity, or within the month of maturity, so that every  *)
(* discounting exponent is a whole number; price and cash flows are drawn  *)
(* so that the bond has a yield among YieldCandidates or pays nothing (and *)
(* so has no yield at all); a yield handed to the constructor is the       *)
(* bond's own, or any for the bond that pays nothing.                      *)
(***************************************************************************)
LifeMaturities ==
    {d \in MaturityDates : d.year > FirstYear /\ d.month = 2}

WholePeriods(settlement, maturity, frequency) ==
    LET n == nperiod(settlement, maturity, frequency)
        pcd == couppcd(settlement, maturity, frequency, 1)
        ncd == coupncd(settlement, maturity, frequency, 1)
    IN  n = 0 \/ (n = 1 /\ first_period_of(settlement, pcd, ncd)[2] = 1)

\* Coupon rates and redemption values in percent, the ordinary bond first.
LifeCoupons == << 5, 0 >>

LifeRedemptions == << 100, 99, 0 >>

Init ==
    \E settlement \in SettlementDates, maturity \in LifeMaturities,
       frequency \in {1, 2}, basis \in {0, 1},
       ci \in DOMAIN LifeCoupons, ri \in DOMAIN LifeRedemptions :
        /\ DateLt(settlement, maturity)
        /\ WholePeriods(settlement, maturity, frequency)
        /\ \E c \in {LifeCoupons[ci]}, redemption \in {LifeRedemptions[ri]} :
            \E outcomes \in {RootOutcomes(settlement, maturity, RInt(c), RInt(100),
                                          redemption, frequency, basis)} :
              /\ (c = 0 /\ redemption = 0) \/ (\A o \in outcomes : o.success \/ o.x = Error)
              /\ \E yld \in {None, RInt(0), RInt(5)} :
                  /\ yld = None \/ (c = 0 /\ redemption = 0)
                                 \/ [success |-> TRUE, x |-> yld] \in outcomes
                  /\ BondFields(settlement, maturity, RInt(c), RInt(100), frequency,
                                basis, redemption, yld, NoMore)
              /\ sol \in outcomes
        /\ cls = "Bond"
        /\ _repo_period = None
        /\ _repo_end_date = None
        /\ _conversion_factor = None
        /\ _future_val_perc = None
        /\ call = NoCall
        /\ nsolve = 0
        /\ probe = None

Next ==
    \/ intermediate_values
    \/ mac_duration
    \/ mod_duration
    \/ DV01
    \/ convexity
    \/ price_change
    \/ coupon_dates

Spec == Init /\ [][Next]_vars

(***************************************************************************)
(* Properties of the coupon schedule (SpecSchedule).                       *)
(***************************************************************************)
IsMonthEnd(dt) == dt.day = DaysInMonth(dt.year, dt.month)

\* C1: for settlement before maturity and a frequency dividing 12,
\* couppcd(...) <= settlement < coupncd(...).
C1_SettlementWithinCouponPeriod ==
    /\ DateLe(couppcd(_settlement, _maturity, _frequency, _basis), _settlement)
    /\ DateLt(_settlement, coupncd(_settlement, _maturity, _frequency, _basis))

\* C2: the next coupon date of a constructed Bond is not after maturity and
\* lies exactly 12/frequency calendar months after the previous coupon date.
C2_NextCouponByMaturity ==
    /\ DateLe(_coupncd, _maturity)
    /\ diff_month(_couppcd, _coupncd) * _frequency = 12

\* C5: the accrued interest computed at construction lies in
\* [0, coupon/frequency], for each of the five bases.
C5_AccruedWithinCoupon ==
    /\ RLe(RInt(0), _perc_dict["accrint"])
    /\ RLe(_perc_dict["accrint"], RDiv(_perc_dict["coupon"], RInt(_frequency)))

\* C8: coupon_dates() is strictly descending, starts at maturity, has
\* floor(diff_month(settlement, maturity) / (12/frequency)) + 1 elements,
\* steps by exactly 12/frequency months, and keeps to month ends when
\* maturity is a month end.
C8_CouponDatesShape ==
    call.op = "coupon_dates" =>
        LET v == call.val
            interval == 12 \div _frequency
        IN  /\ Len(v) = (diff_month(_settlement, _maturity) \div interval) + 1
            /\ v[1] = _maturity
            /\ \A i \in 1 .. (Len(v) - 1) :
                /\ DateLt(v[i + 1], v[i])
                /\ diff_month(v[i + 1], v[i]) = interval
            /\ IsMonthEnd(_maturity) => \A i \in 1 .. Len(v) : IsMonthEnd(v[i])

\* C8's case: a month-end maturity whose earlier coupon dates fall in months
\* of other lengths.
C8_Witness ==
    /\ call.op = "coupon_dates"
    /\ _maturity = Date(FirstYear + 1, 2, DaysInMonth(FirstYear + 1, 2))
    /\ Len(call.val) >= 3
    /\ call.val[2].day = 30
    /\ call.val[3].day = 31

\* C11: the sequence coupon_dates() returns reaches from maturity back to or
\* past settlement: its last (earliest) element is on or before settlement.
C11_CouponDatesReachSettlement ==
    call.op = "coupon_dates" =>
        DateLe(call.val[Len(call.val)], _settlement)

\* C9: full_future_val() is futures quote * conversion factor + the interest
\* accrued to the repo end date under the bond's own frequency and basis,
\* the repo end date being settlement + repo_period days.
C9_FutureValueUsesBondConvention ==
    call.op = "full_future_val" =>
        /\ _repo_end_date = AddDays(_settlement, _repo_period)
        /\ call.val = RAdd(RMul(_perc_dict["futures_pr_perc"], _conversion_factor),
                           accrint(_couppcd, _coupncd, _repo_end_date,
                                   _perc_dict["coupon"], 1, _frequency, _basis))

(***************************************************************************)
(* Properties of day_count (SpecDayCount).                                 *)
(***************************************************************************)
\* C7: day_count(d, d, basis) = 0 for every date d and every basis 0..4.
C7_DayCountSameDateIsZero ==
    (call.op = "day_count" /\ call.args[1] = call.args[2]) => call.val = 0

\* C7's case: a leap-year February month end counted against itself, 30/360.
C7_Witness ==
    /\ call.op = "day_count"
    /\ call.args[1] = call.args[2]
    /\ call.args[1].month = 2
    /\ call.args[1].day = 29
    /\ call.args[3] = 0
    /\ call.val = 0

(***************************************************************************)
(* Properties of the memoized metrics (Spec).                              *)
(***************************************************************************)
Fields == {"yld", "mac_duration", "mod_duration", "DV01", "convexity"}

\* C3: each memoized field is computed at most once: a call assigns a field
\* only if it found it unset, assigns it once, and the yield is solved at
\* most once on one Bond.
C3_ComputedOnce ==
    /\ \A i \in DOMAIN call.log :
        call.log[i] \in Fields =>
            /\ call.pre[call.log[i]] = None
            /\ \A j \in DOMAIN call.log : call.log[j] = call.log[i] => j = i
    /\ nsolve <= 1

\* C4: a call that ran Bond.yld and got a yield from it got a yield in
\* [0, 100] from a converged solve.
C4_YieldOnlyFromConvergedSolve ==
    (Solves(call.log) > 0 /\ call.val # Error) =>
        /\ sol.success
        /\ RLe(RInt(0), sol.x)
        /\ RLe(sol.x, RInt(100))

\* C6: no method call changes the identity inputs or the fields derived at
\* construction.
C6_IdentityUnchanged == [][identity' = identity]_vars

\* C6's case: metric calls have run and filled memoized fields.
C6_Witness ==
    /\ call.op = "price_change"
    /\ _yld # None
    /\ _mod_duration # None
    /\ _DV01 # None
    /\ _convexity # None

\* The symmetric finite-difference estimate of 4.5 for the bump b, at the
\* yield y.
FiniteDifference(y, b) ==
    LET P == _perc_dict["dirty_price"]
        up == dirty_price(_settlement, _maturity, _perc_dict["coupon"], RAdd(y, b),
                          _redemption, _frequency, _basis)
        down == dirty_price(_settlement, _maturity, _perc_dict["coupon"], RSub(y, b),
                            _redemption, _frequency, _basis)
    IN  RDiv(RDiv(RAdd(RDiv(RAbs(RSub(up, P)), P), RDiv(RAbs(RSub(down, P)), P)),
                  RInt(2)),
             RMul(b, Rat(1, 100)))

\* C10: every call mod_duration(b) returns the estimate for the bump b of
\* that call.
C10_ModDurationUsesCallBump ==
    (call.op = "mod_duration" /\ call.val # Error) =>
        call.val = FiniteDifference(IF _yld = None THEN yld_of(sol) ELSE _yld,
                                    call.args[1])

(***************************************************************************)
(* Properties of the cash flows (Spec).                                    *)
(***************************************************************************)
\* C12: for settlement < maturity the period count is at least 1, so
\* dirty_price returns a price and intermediate_values does not fail on an
\* empty cash-flow array (a failure with no yield solve begun).
C12_AtLeastOnePeriod ==
    /\ nperiod(_settlement, _maturity, _frequency) >= 1
    /\ dirty_price(_settlement, _maturity, _perc_dict["coupon"], RInt(0),
                   _redemption, _frequency, _basis) # Error
    /\ (call.op = "intermediate_values" /\ call.val = Error) => call.log # << >>

=============================================================================
